---- MODULE Spec2Model ----
(***************************************************************************)
(* Model of src/metric/weighted_dcg_calculator.cpp (WeightedDCGCalculator).*)
(*                                                                         *)
(* Numbers.  The code computes in double.  Here a gain is an integer       *)
(* number of 1/GainScale units (exact for the thetas of ItemKinds) and a   *)
(* discount is 1/log2(2+i) rounded to six decimals, so that sums and       *)
(* products are exact integers; floating-point rounding is not modelled.   *)
(* Array positions are the code's 0-based positions; a TLA+ sequence s     *)
(* holds position j at s[j+1].                                             *)
(***************************************************************************)
EXTENDS Integers, Sequences, FiniteSets, TLC

\* ------------------------------------------------------------- bounds
MaxN == 3        \* items per call of an engine
MaxK == 3        \* largest cutoff handed to an engine on an item array
MaxKs == 2       \* cutoffs per call
MaxLabels == 2   \* labels per call of CheckLabel
MaxQueries == 2  \* queries per Metadata

\* ------------------------------------------------- program constants
kMaxPosition == 10000
max_label == 31

\* ------------------------------------------------------------ helpers
Min(a, b) == IF a < b THEN a ELSE b
Max(a, b) == IF a > b THEN a ELSE b

RECURSIVE Pow2(_)
Pow2(e) == IF e <= 0 THEN 1 ELSE 2 * Pow2(e - 1)

\* The interval of positions a loop visits, kept as its hull; hi < lo: none.
NoReads == [lo |-> 0, hi |-> -1]
AddReads(r, from, to) ==
    IF from >= to THEN r
    ELSE IF r.hi < r.lo THEN [lo |-> from, hi |-> to - 1]
    ELSE [lo |-> Min(r.lo, from), hi |-> Max(r.hi, to - 1)]
Within(r, len) == r.hi < r.lo \/ (0 <= r.lo /\ r.hi < len)

\* ---------------------------------------------------------- GainModel
\* gains are counted in quarters: 1 / th1 and 2 / (th1 * th2) are whole
\* numbers of quarters for every theta of ItemKinds and Thetas
GainScale == 2 * 2

\* int is 32 bits wide
INT_MAX == (Pow2(30) - 1) + Pow2(30)
INT_MIN == (0 - Pow2(30)) - Pow2(30)

\* 1 << c for a shift count c in 0..31
Shl1Defined(c) == IF c = 31 THEN INT_MIN ELSE Pow2(c)

\* The outcomes of the int expression 1 << l.  A shift count outside 0..31
\* is undefined: the build either masks the count (x86) or yields 0.
Int32Shl1(l) ==
    IF 0 <= l /\ l <= 31 THEN {Shl1Defined(l)}
    ELSE {Shl1Defined(l % 32), 0}

\* x - 1 in int: at INT_MIN the subtraction overflows and wraps.
Int32Dec(x) ==
    IF x = INT_MIN THEN [val |-> INT_MAX, wrapped |-> TRUE]
    ELSE [val |-> x - 1, wrapped |-> FALSE]

\* Every outcome of CalGain(l, th1, th2).  The value is val / unit: labels
\* 0..2 are counted in 1/GainScale, the int of the last branch in units.
\* wrapped: the int expression left the defined range of int.
CalGainOutcomes(l, th1, th2) ==
    IF l = 0 THEN {[val |-> 0, unit |-> GainScale, wrapped |-> FALSE]}
    ELSE IF l = 1
      THEN {[val |-> GainScale \div th1, unit |-> GainScale, wrapped |-> FALSE]}
    ELSE IF l = 2
      THEN {[val |-> (2 * GainScale) \div (th1 * th2) + GainScale \div th1,
             unit |-> GainScale, wrapped |-> FALSE]}
    ELSE {[val |-> Int32Dec(s).val, unit |-> 1,
           wrapped |-> Int32Dec(s).wrapped \/ l < 0 \/ l > 30] : s \in Int32Shl1(l)}

\* CalGain in 1/GainScale units, where it has one outcome (0 <= l <= 30).
CalGain(l, th1, th2) ==
    LET o == CHOOSE x \in CalGainOutcomes(l, th1, th2) : TRUE
    IN o.val * (GainScale \div o.unit)

\* ------------------------------------------------------ DiscountTable
\* 10^6 / log2(2 + i) for the positions a small array reaches
DiscountHead == <<1000000, 630930, 500000, 430677, 386853, 356207, 333333, 315465>>

\* discount_[i] after Init; `size` is discount_.size() at the time of the
\* read and `garbage` what a read past the end returns.
DiscountAt(i, size, garbage) ==
    IF 0 <= i /\ i < size /\ i < Len(DiscountHead) THEN DiscountHead[i + 1]
    ELSE garbage

\* -------------------------------------------------------------- inputs
Item(l, t1, t2) == [label |-> l, theta1 |-> t1, theta2 |-> t2]
\* one item per branch of CalGain; the label-1 item gains more than the
\* label-2 item (4 quarters against 3)
ItemKinds == {Item(0, 1, 1), Item(1, 1, 1), Item(2, 2, 4), Item(3, 1, 1)}
ItemArrays == UNION {[1..n -> ItemKinds] : n \in 0..MaxN}
Scores == {0, 1}
ScoreArrays(n) == [1..n -> Scores]
KsInputs == UNION {[1..m -> 1..MaxK] : m \in 1..MaxKs}
\* what a read past the end of the caller's arrays may return
GarbageItems == {Item(0, 1, 1), Item(3, 1, 1)}
GarbageDiscounts == {0, 1000000}

Ascending(ks) == \A i \in 1..(Len(ks) - 1) : ks[i] <= ks[i + 1]

\* ------------------------------------------------------- sort helpers
\* std::sort followed by std::reverse on a vector<double>
RECURSIVE InsertAsc(_, _)
InsertAsc(x, s) ==
    IF s = <<>> THEN <<x>>
    ELSE IF x <= Head(s) THEN <<x>> \o s
    ELSE <<Head(s)>> \o InsertAsc(x, Tail(s))

RECURSIVE SortAsc(_)
SortAsc(s) == IF s = <<>> THEN <<>> ELSE InsertAsc(Head(s), SortAsc(Tail(s)))

Reverse(s) == [i \in 1..Len(s) |-> s[Len(s) + 1 - i]]

\* SortDescending without the std::reverse
SortNotReversed(s) == SortAsc(s)

SortDescending(s) == Reverse(SortAsc(s))

\* ScoreGreater with >= for >
ScoreGreaterOrEqual(score, a, b) == score[a + 1] >= score[b + 1]

\* the comparator of CalDCG's stable_sort: a goes before b
ScoreGreater(score, a, b) == score[a + 1] > score[b + 1]

\* std::stable_sort: x, which followed every element of s in the input, goes
\* before the first element the comparator puts it before, and so after
\* every element equivalent to it
RECURSIVE StableInsert(_, _, _)
StableInsert(x, s, score) ==
    IF s = <<>> THEN <<x>>
    ELSE IF ScoreGreater(score, x, Head(s)) THEN <<x>> \o s
    ELSE <<Head(s)>> \o StableInsert(x, Tail(s), score)

RECURSIVE StableSortPrefix(_, _)
StableSortPrefix(m, score) ==
    IF m = 0 THEN <<>>
    ELSE StableInsert(m - 1, StableSortPrefix(m - 1, score), score)

\* sorted_idx after lines 137-142
SortedIdx(score, num_data) == StableSortPrefix(num_data, score)

\* ----------------------------------------------------- IdealDCGEngine
\* label[j], theta1[j], theta2[j]; j >= num_data is a read past the end
ItemAt(items, j, past) == IF j < Len(items) THEN items[j + 1] ELSE past

GainOf(it) == CalGain(it.label, it.theta1, it.theta2)

\* lines 84-87
RECURSIVE AtKLoop(_, _, _, _, _, _)
AtKLoop(j, k, ret, gains, size, garbage) ==
    IF j >= k THEN ret
    ELSE AtKLoop(j + 1, k, ret + DiscountAt(j, size, garbage) * gains[j + 1],
                 gains, size, garbage)

\* The positions j the loops of CalMaxDCGAtK visit: caller = label, theta1
\* and theta2, buf = gains (bufLen long), disc = discount_ and gains again.
MaxDCGAtKReads(k, num_data) ==
    LET kk == IF k > num_data THEN num_data ELSE k
    IN [caller |-> AddReads(NoReads, 0, k),
        bufLen |-> k,
        buf |-> AddReads(AddReads(NoReads, 0, k), 0, kk),
        disc |-> AddReads(NoReads, 0, kk)]

\* CalMaxDCGAtK; `size` is discount_.size(), `past` and `garbage` what reads
\* past the end of the caller's arrays and of discount_ return.
CalMaxDCGAtK(k, items, num_data, size, past, garbage) ==
    LET gains == SortDescending([j \in 1..k |-> GainOf(ItemAt(items, j - 1, past))])
        kk == IF k > num_data THEN num_data ELSE k
    IN AtKLoop(0, kk, 0, gains, size, garbage)

\* PassReads without the clamp of cur_k to num_data
RECURSIVE PassReadsNoClamp(_, _, _, _, _)
PassReadsNoClamp(i, ks, cur_left, r, num_data) ==
    IF i > Len(ks) THEN r
    ELSE PassReadsNoClamp(i + 1, ks, ks[i], AddReads(r, cur_left, ks[i]), num_data)

\* The positions j the one-pass loop over ks visits (the same loop in
\* CalMaxDCG and in CalDCG): every j in cur_left..cur_k-1 of every cutoff.
RECURSIVE PassReads(_, _, _, _, _)
PassReads(i, ks, cur_left, r, num_data) ==
    IF i > Len(ks) THEN r
    ELSE LET cur_k == IF ks[i] > num_data THEN num_data ELSE ks[i]
         IN PassReads(i + 1, ks, cur_k, AddReads(r, cur_left, cur_k), num_data)

\* caller = label, theta1, theta2 (and score); buf = gains or sorted_idx
EngineReads(ks, num_data) ==
    [caller |-> AddReads(NoReads, 0, num_data),
     bufLen |-> num_data,
     buf |-> PassReads(1, ks, 0, AddReads(NoReads, 0, num_data), num_data),
     disc |-> PassReads(1, ks, 0, NoReads, num_data)]

\* lines 116-125
RECURSIVE MaxInner(_, _, _, _, _, _)
MaxInner(j, cur_k, cur_result, gains, size, garbage) ==
    IF j >= cur_k THEN cur_result
    ELSE MaxInner(j + 1, cur_k,
                  cur_result + DiscountAt(j, size, garbage) * gains[j + 1],
                  gains, size, garbage)

\* lines 113-128; st = [cur_result, cur_left, out]
RECURSIVE MaxOuter(_, _, _, _, _, _, _)
MaxOuter(i, ks, st, gains, num_data, size, garbage) ==
    IF i > Len(ks) THEN st
    ELSE LET cur_k == IF ks[i] > num_data THEN num_data ELSE ks[i]
             r == MaxInner(st.cur_left, cur_k, st.cur_result, gains, size, garbage)
         IN MaxOuter(i + 1, ks,
                     [cur_result |-> r, cur_left |-> cur_k,
                      out |-> [st.out EXCEPT ![i] = r]],
                     gains, num_data, size, garbage)

\* CalMaxDCG; *out has ks.size() entries
CalMaxDCG(ks, items, num_data, size, garbage) ==
    LET gains == SortDescending([j \in 1..num_data |-> GainOf(items[j])])
    IN MaxOuter(1, ks,
                [cur_result |-> 0, cur_left |-> 0, out |-> [i \in 1..Len(ks) |-> 0]],
                gains, num_data, size, garbage).out

\* -------------------------------------------------- ObservedDCGEngine
\* lines 150-162
RECURSIVE DCGInner(_, _, _, _, _, _, _)
DCGInner(j, cur_k, cur_result, sorted_idx, items, size, garbage) ==
    IF j >= cur_k THEN cur_result
    ELSE LET idx == sorted_idx[j + 1]
         IN DCGInner(j + 1, cur_k,
                     cur_result + GainOf(items[idx + 1]) * DiscountAt(j, size, garbage),
                     sorted_idx, items, size, garbage)

\* lines 147-165; st = [cur_result, cur_left, out]
RECURSIVE DCGOuter(_, _, _, _, _, _, _, _)
DCGOuter(i, ks, st, sorted_idx, items, num_data, size, garbage) ==
    IF i > Len(ks) THEN st
    ELSE LET cur_k == IF ks[i] > num_data THEN num_data ELSE ks[i]
             r == DCGInner(st.cur_left, cur_k, st.cur_result,
                           sorted_idx, items, size, garbage)
         IN DCGOuter(i + 1, ks,
                     [cur_result |-> r, cur_left |-> cur_k,
                      out |-> [st.out EXCEPT ![i] = r]],
                     sorted_idx, items, num_data, size, garbage)

\* CalDCG; *out has ks.size() entries
CalDCG(ks, items, score, num_data, size, garbage) ==
    DCGOuter(1, ks,
             [cur_result |-> 0, cur_left |-> 0, out |-> [i \in 1..Len(ks) |-> 0]],
             SortedIdx(score, num_data), items, num_data, size, garbage).out

\* --------------------------------------------------------- Validators
\* A label_t (float) is half / 2 + tiny * t for a t below every tolerance:
\* float has such values only next to 0, so tiny # 0 goes with half = 0.
FloatLabel(h, t) == [half |-> h, tiny |-> t]
LabelValues ==
    {FloatLabel(2 * v, 0) : v \in {-1, 0, 1, 2, 3, max_label - 1, max_label,
                                   max_label + 1, max_label + 2}}
    \cup {FloatLabel(-1, 0), FloatLabel(1, 0), FloatLabel(5, 0)}
    \cup {FloatLabel(0, 1), FloatLabel(0, -1)}
LabelArrays == UNION {[1..n -> LabelValues] : n \in 0..MaxLabels}

\* static_cast<int>(label[i]): truncation towards zero
ToInt(l) == IF l.half >= 0 THEN l.half \div 2 ELSE 0 - ((0 - l.half) \div 2)

\* std::fabs(label[i] - static_cast<int>(label[i]))
Delta(l) ==
    LET d == l.half - 2 * ToInt(l)
    IN FloatLabel(IF d < 0 THEN 0 - d ELSE d, IF l.tiny < 0 THEN 0 - l.tiny ELSE l.tiny)

\* delta > kEpsilon: a half is above the tolerance, a tiny offset is not
ExceedsEpsilon(d) == d.half > 0

\* label[i] < 0
IsNegative(l) == l.half < 0 \/ (l.half = 0 /\ l.tiny < 0)

\* CheckLabelLoop with > for >= in the test against label_gain_.size()
RECURSIVE CheckLabelLoopSizeOffByOne(_, _, _, _)
CheckLabelLoopSizeOffByOne(i, label, num_data, size) ==
    IF i >= num_data THEN "ok"
    ELSE IF ExceedsEpsilon(Delta(label[i + 1])) THEN "fatal"
    ELSE IF IsNegative(label[i + 1]) THEN "fatal"
    ELSE IF ToInt(label[i + 1]) > size THEN "fatal"
    ELSE CheckLabelLoopSizeOffByOne(i + 1, label, num_data, size)

\* lines 182-196: "ok", or "fatal" at the first label that fails a test
RECURSIVE CheckLabelLoop(_, _, _, _)
CheckLabelLoop(i, label, num_data, size) ==
    IF i >= num_data THEN "ok"
    ELSE IF ExceedsEpsilon(Delta(label[i + 1])) THEN "fatal"
    ELSE IF IsNegative(label[i + 1]) THEN "fatal"
    ELSE IF ToInt(label[i + 1]) >= size THEN "fatal"
    ELSE CheckLabelLoop(i + 1, label, num_data, size)

CheckLabel(label, num_data, size) == CheckLabelLoop(0, label, num_data, size)

\* metadata.query_boundaries() of a Metadata without queries
NullBoundaries == <<>>
BoundaryPoints == {0, 1, kMaxPosition - 1, kMaxPosition, kMaxPosition + 1,
                   2 * kMaxPosition + 1}
BoundaryInputs ==
    {NullBoundaries} \cup
    {qb \in UNION {[1..(m + 1) -> BoundaryPoints] : m \in 1..MaxQueries} :
        qb[1] = 0 /\ \A i \in 1..(Len(qb) - 1) : qb[i] <= qb[i + 1]}

\* CheckMetadataLoop with >= for > in the test against kMaxPosition
RECURSIVE CheckMetadataLoopAtCap(_, _, _)
CheckMetadataLoopAtCap(i, query_boundaries, num_queries) ==
    IF i >= num_queries THEN "ok"
    ELSE LET num_rows == query_boundaries[i + 2] - query_boundaries[i + 1]
         IN IF num_rows >= kMaxPosition THEN "fatal"
            ELSE CheckMetadataLoopAtCap(i + 1, query_boundaries, num_queries)

\* lines 171-176
RECURSIVE CheckMetadataLoop(_, _, _)
CheckMetadataLoop(i, query_boundaries, num_queries) ==
    IF i >= num_queries THEN "ok"
    ELSE LET num_rows == query_boundaries[i + 2] - query_boundaries[i + 1]
         IN IF num_rows > kMaxPosition THEN "fatal"
            ELSE CheckMetadataLoop(i + 1, query_boundaries, num_queries)

CheckMetadata(query_boundaries, num_queries) ==
    IF num_queries > 0 /\ query_boundaries # NullBoundaries
    THEN CheckMetadataLoop(0, query_boundaries, num_queries)
    ELSE "ok"

\* ------------------------------------------------------------ defaults
\* EvalAtLoop with CHECK_GE for CHECK_GT
RECURSIVE EvalAtLoopGE(_, _)
EvalAtLoopGE(i, eval_at) ==
    IF i >= Len(eval_at) THEN "ok"
    ELSE IF ~(eval_at[i + 1] >= 0) THEN "fatal"
    ELSE EvalAtLoopGE(i + 1, eval_at)

\* lines 38-40: CHECK_GT(ref_eval_at[i], 0)
RECURSIVE EvalAtLoop(_, _)
EvalAtLoop(i, eval_at) ==
    IF i >= Len(eval_at) THEN "ok"
    ELSE IF ~(eval_at[i + 1] > 0) THEN "fatal"
    ELSE EvalAtLoop(i + 1, eval_at)

\* DefaultEvalAt: the outcome and *eval_at afterwards
DefaultEvalAt(eval_at) ==
    IF eval_at = <<>>
    THEN [status |-> "ok", eval_at |-> [i \in 1..5 |-> i]]
    ELSE [status |-> EvalAtLoop(0, eval_at), eval_at |-> eval_at]

EvalAtInputs == UNION {[1..m -> (-1)..MaxK] : m \in 0..MaxKs}

\* DefaultLabelGain: *label_gain afterwards
DefaultLabelGain(label_gain) ==
    IF label_gain # <<>> THEN label_gain
    ELSE [i \in 1..max_label |->
            IF i = 1 THEN 0 ELSE Int32Dec(Shl1Defined(i - 1)).val]

\* the tables a configuration hands to Init: the default one, a short one
\* and one with more entries than the default
LabelGainInputs ==
    {DefaultLabelGain(<<>>), <<0, 1, 3>>, [i \in 1..(max_label + 2) |-> i - 1]}

\* ---------------------------------------------------------------- state
VARIABLES
    label_gain_,   \* the static label_gain_
    discount_,     \* discount_.size(); its entries are DiscountAt
    init_done,     \* history: Init has run
    metadata,      \* the caller's Metadata, and whether CheckMetadata accepted it
    call           \* the last call: its arguments and what it did

vars == <<label_gain_, discount_, init_done, metadata, call>>

NoMetadata ==
    [query_boundaries |-> NullBoundaries, num_queries |-> 0, accepted |-> FALSE]

\* static initialisation: both vectors empty
Construct ==
    /\ label_gain_ = <<>>
    /\ discount_ = 0
    /\ init_done = FALSE
    /\ metadata = NoMetadata
    /\ call = [op |-> "none"]

\* one caller: a call starts when the one before it has returned
Idle == call.op = "none"

Return ==
    /\ ~Idle
    /\ call' = [op |-> "none"]
    /\ UNCHANGED <<label_gain_, discount_, init_done, metadata>>

Init(input_label_gain) ==
    /\ Idle
    /\ label_gain_' = [i \in 1..Len(input_label_gain) |-> input_label_gain[i]]
    /\ discount_' = kMaxPosition
    /\ init_done' = TRUE
    /\ call' = [op |-> "Init", input_label_gain |-> input_label_gain]
    /\ UNCHANGED metadata

\* a call whose reads leave an array is undefined: it returns what the
\* garbage gives, or faults
Undefined(reads, num_data, size) ==
    \/ ~Within(reads.caller, num_data)
    \/ ~Within(reads.buf, reads.bufLen)
    \/ ~Within(reads.disc, size)

Outcomes(ub) == IF ub THEN {"ok", "fault"} ELSE {"ok"}

\* what a read of discount_ may return: garbage only where discount_ is
\* shorter than the positions read
DiscountGarbage(reads, size) ==
    IF Within(reads.disc, size) THEN {0} ELSE GarbageDiscounts

CallMaxDCGAtK ==
    /\ Idle
    /\ \E k \in 1..MaxK, items \in ItemArrays, past \in GarbageItems :
        LET num_data == Len(items)
            reads == MaxDCGAtKReads(k, num_data)
            ub == Undefined(reads, num_data, discount_)
        IN \E status \in Outcomes(ub), garbage \in DiscountGarbage(reads, discount_) :
            /\ call' = [op |-> "CalMaxDCGAtK", k |-> k, items |-> items,
                        num_data |-> num_data, size |-> discount_,
                        after_init |-> init_done, reads |-> reads, ub |-> ub,
                        status |-> status,
                        ret |-> IF status = "fault" THEN 0
                                ELSE CalMaxDCGAtK(k, items, num_data, discount_,
                                                  past, garbage)]
            /\ UNCHANGED <<label_gain_, discount_, init_done, metadata>>

CallMaxDCG ==
    /\ Idle
    /\ \E ks \in KsInputs, items \in ItemArrays :
        LET num_data == Len(items)
            reads == EngineReads(ks, num_data)
            ub == Undefined(reads, num_data, discount_)
        IN \E status \in Outcomes(ub), garbage \in DiscountGarbage(reads, discount_) :
            /\ call' = [op |-> "CalMaxDCG", ks |-> ks, items |-> items,
                        num_data |-> num_data, size |-> discount_,
                        after_init |-> init_done, reads |-> reads, ub |-> ub,
                        status |-> status,
                        out |-> IF status = "fault" THEN <<>>
                                ELSE CalMaxDCG(ks, items, num_data, discount_, garbage)]
            /\ UNCHANGED <<label_gain_, discount_, init_done, metadata>>

CallDCG ==
    /\ Idle
    /\ \E ks \in KsInputs, items \in ItemArrays :
      \E score \in ScoreArrays(Len(items)) :
        LET num_data == Len(items)
            reads == EngineReads(ks, num_data)
            ub == Undefined(reads, num_data, discount_)
        IN \E status \in Outcomes(ub), garbage \in DiscountGarbage(reads, discount_) :
            /\ call' = [op |-> "CalDCG", ks |-> ks, items |-> items, score |-> score,
                        num_data |-> num_data, size |-> discount_,
                        after_init |-> init_done, reads |-> reads, ub |-> ub,
                        status |-> status,
                        out |-> IF status = "fault" THEN <<>>
                                ELSE CalDCG(ks, items, score, num_data, discount_,
                                            garbage)]
            /\ UNCHANGED <<label_gain_, discount_, init_done, metadata>>

InitDefault == Init(DefaultLabelGain(<<>>))

\* The engines on item arrays.  The caller runs Init first (it must run
\* before any other operation); calls before Init are in SpecMeta.
MaxDCGAtKAfterInit == init_done /\ CallMaxDCGAtK
MaxDCGAfterInit == init_done /\ CallMaxDCG
DCGAfterInit == init_done /\ CallDCG

Next ==
    \/ InitDefault \/ MaxDCGAtKAfterInit \/ MaxDCGAfterInit \/ DCGAfterInit
    \/ Return

Spec == Construct /\ [][Next]_vars

\* ------------------------------------------- validators and defaults
InitAny == \E input_label_gain \in LabelGainInputs : Init(input_label_gain)

CallCheckLabel ==
    /\ Idle
    /\ \E label \in LabelArrays :
         call' = [op |-> "CheckLabel", label |-> label, num_data |-> Len(label),
                  size |-> Len(label_gain_), after_init |-> init_done,
                  status |-> CheckLabel(label, Len(label), Len(label_gain_))]
    /\ UNCHANGED <<label_gain_, discount_, init_done, metadata>>

Thetas == {1, 2}
GainLabels == 0..(max_label + 2)

CallGain ==
    /\ Idle
    /\ \E l \in GainLabels, th1 \in Thetas, th2 \in Thetas :
         \E o \in CalGainOutcomes(l, th1, th2) :
            call' = [op |-> "CalGain", l |-> l, th1 |-> th1, th2 |-> th2,
                     val |-> o.val, unit |-> o.unit, wrapped |-> o.wrapped]
    /\ UNCHANGED <<label_gain_, discount_, init_done, metadata>>

CallDefaultEvalAt ==
    /\ Idle
    /\ \E eval_at \in EvalAtInputs :
         LET r == DefaultEvalAt(eval_at)
         IN call' = [op |-> "DefaultEvalAt", arg |-> eval_at,
                     status |-> r.status, eval_at |-> r.eval_at]
    /\ UNCHANGED <<label_gain_, discount_, init_done, metadata>>

CallDefaultLabelGain ==
    /\ Idle
    /\ \E label_gain \in {<<>>, <<0, 1, 3>>} :
         call' = [op |-> "DefaultLabelGain", arg |-> label_gain,
                  label_gain |-> DefaultLabelGain(label_gain)]
    /\ UNCHANGED <<label_gain_, discount_, init_done, metadata>>

NextLabel ==
    \/ InitAny \/ CallCheckLabel \/ CallGain \/ CallDefaultEvalAt
    \/ CallDefaultLabelGain \/ Return

SpecLabel == Construct /\ [][NextLabel]_vars

\* --------------------------------------------- queries of a Metadata
\* Log::Fatal ends the call; the caller's Metadata is then not accepted
CallCheckMetadata ==
    /\ Idle
    /\ \E query_boundaries \in BoundaryInputs :
        \E num_queries \in 0..Max(Len(query_boundaries) - 1, 1) :
         LET status == CheckMetadata(query_boundaries, num_queries)
         IN /\ call' = [op |-> "CheckMetadata", query_boundaries |-> query_boundaries,
                        num_queries |-> num_queries, status |-> status]
            /\ metadata' = [query_boundaries |-> query_boundaries,
                            num_queries |-> num_queries,
                            accepted |-> (status = "ok")]
    /\ UNCHANGED <<label_gain_, discount_, init_done>>

\* the cutoffs of a call on a query: around the item counts CheckMetadata
\* separates
QueryCutoffs == {1, kMaxPosition, kMaxPosition + 1}
QueryKs == UNION {[1..m -> QueryCutoffs] : m \in 1..MaxKs}

HasQueries == metadata.num_queries > 0 /\ metadata.query_boundaries # NullBoundaries
QuerySize(q) == metadata.query_boundaries[q + 2] - metadata.query_boundaries[q + 1]

\* An engine on query q of the caller's Metadata: label + boundary[q] and
\* the other arrays, with num_data the query's item count.  The items are
\* not held; the call is the positions its loops visit.
QueryCall(op, q, ks, reads) ==
    /\ call' = [op |-> op, query |-> q, ks |-> ks, num_data |-> QuerySize(q),
                size |-> discount_, after_init |-> init_done,
                accepted |-> metadata.accepted, reads |-> reads,
                ub |-> Undefined(reads, QuerySize(q), discount_)]
    /\ UNCHANGED <<label_gain_, discount_, init_done, metadata>>

QueryMaxDCGAtK ==
    /\ Idle /\ HasQueries
    /\ \E q \in 0..(metadata.num_queries - 1), k \in QueryCutoffs :
         QueryCall("CalMaxDCGAtK", q, <<k>>, MaxDCGAtKReads(k, QuerySize(q)))

QueryMaxDCG ==
    /\ Idle /\ HasQueries
    /\ \E q \in 0..(metadata.num_queries - 1), ks \in QueryKs :
         QueryCall("CalMaxDCG", q, ks, EngineReads(ks, QuerySize(q)))

QueryDCG ==
    /\ Idle /\ HasQueries
    /\ \E q \in 0..(metadata.num_queries - 1), ks \in QueryKs :
         QueryCall("CalDCG", q, ks, EngineReads(ks, QuerySize(q)))

NextMeta ==
    \/ InitDefault \/ CallCheckMetadata \/ QueryMaxDCGAtK \/ QueryMaxDCG
    \/ QueryDCG \/ Return

SpecMeta == Construct /\ [][NextMeta]_vars

\* --------------------------------------------------------- properties
Engines == {"CalMaxDCGAtK", "CalMaxDCG", "CalDCG"}

RECURSIVE SeqSum(_)
SeqSum(s) == IF s = <<>> THEN 0 ELSE Head(s) + SeqSum(Tail(s))

\* the number of items that go before item idx when the items are ordered
\* by descending score and, at equal score, by ascending index
Rank(score, idx, n) ==
    Cardinality({a \in 0..(n - 1) :
        \/ score[a + 1] > score[idx + 1]
        \/ (score[a + 1] = score[idx + 1] /\ a < idx)})

ItemAtPosition(score, j, n) == CHOOSE idx \in 0..(n - 1) : Rank(score, idx, n) = j

\* sum over j < min(k, n) of discount[j] * Gain(item at position j)
OrderedDCG(k, items, score, n) ==
    SeqSum([j \in 1..Min(k, n) |->
        DiscountHead[j] * GainOf(items[ItemAtPosition(score, j - 1, n) + 1])])

\* the orders n items can be placed in
Orders(n) ==
    {p \in [1..n -> 1..n] : \A a, b \in 1..n : p[a] = p[b] => a = b}

PermutationDCG(p, k, items, n) ==
    SeqSum([j \in 1..Min(k, n) |-> DiscountHead[j] * GainOf(items[p[j]])])

BestDCG(k, items, n) ==
    LET vals == {PermutationDCG(p, k, items, n) : p \in Orders(n)}
    IN CHOOSE v \in vals : \A w \in vals : v >= w

\* C1: once Init has run, the value CalMaxDCGAtK(k, items, n) returns is at
\* least the value CalDCG reports for the single cutoff k on the same items,
\* whatever the scores.
C1_MaxAtKBoundsDCG ==
    (call.op = "CalMaxDCGAtK" /\ call.after_init /\ call.status = "ok") =>
        \A score \in ScoreArrays(call.num_data) :
            call.ret >= CalDCG(<<call.k>>, call.items, score, call.num_data,
                               call.size, 0)[1]

\* C2: for an ascending ks, the i-th result of CalMaxDCG(ks, items, n) equals
\* CalMaxDCGAtK(ks[i], items, n), for every index i of ks.  (Stated for the
\* cutoffs up to n, where CalMaxDCGAtK reads inside the caller's arrays.)
C2_MaxDCGEqualsAtK ==
    (call.op = "CalMaxDCG" /\ call.after_init /\ call.status = "ok"
       /\ Ascending(call.ks)) =>
        \A i \in 1..Len(call.ks) : \A past \in GarbageItems :
            call.ks[i] <= call.num_data =>
              call.out[i] = CalMaxDCGAtK(call.ks[i], call.items, call.num_data,
                                       call.size, past, 0)

\* C3: with a cutoff larger than the item count, no engine reads a position
\* >= n of the caller's label, theta1, theta2 or score arrays, nor a position
\* outside its own gains / sorted_idx buffer.
C3_ReadsStayInside ==
    (call.op \in Engines /\ call.after_init) =>
        /\ Within(call.reads.caller, call.num_data)
        /\ Within(call.reads.buf, call.reads.bufLen)

\* C7: for an ascending ks, the i-th result of CalDCG is the sum over the
\* positions j < min(ks[i], n) of discount[j] * Gain(item at position j), the
\* items ordered by descending score and, at equal score, by ascending index.
C7_DCGIsOrderedSum ==
    (call.op = "CalDCG" /\ call.after_init /\ call.status = "ok"
       /\ Ascending(call.ks)) =>
        \A i \in 1..Len(call.ks) :
            call.out[i] = OrderedDCG(call.ks[i], call.items, call.score, call.num_data)

\* a CalDCG call with two increasing cutoffs, the first below n, and two
\* items of equal score and different gain
C7_Witness ==
    /\ call.op = "CalDCG" /\ call.after_init /\ call.status = "ok"
    /\ Len(call.ks) = 2 /\ call.ks[1] < call.ks[2] /\ call.ks[1] < call.num_data
    /\ \E a, b \in 1..call.num_data :
          /\ a < b /\ call.score[a] = call.score[b]
          /\ GainOf(call.items[a]) < GainOf(call.items[b])
          /\ \A c \in 1..call.num_data : call.score[c] <= call.score[a]
    /\ call.out[1] > 0 /\ call.out[2] > call.out[1]

\* C9: for an ascending ks and items of non-negative gain, the i-th result
\* of CalMaxDCG is the largest sum of discount[j] * gain(item placed at j),
\* j < min(ks[i], n), over all orders of the n items; so it is at least the
\* i-th result of CalDCG on the same items for any scores.
C9_MaxDCGIsBest ==
    (call.op = "CalMaxDCG" /\ call.after_init /\ call.status = "ok"
       /\ Ascending(call.ks)
       /\ \A a \in 1..call.num_data : GainOf(call.items[a]) >= 0) =>
        \A i \in 1..Len(call.ks) :
            /\ call.out[i] = BestDCG(call.ks[i], call.items, call.num_data)
            /\ \A score \in ScoreArrays(call.num_data) :
                  call.out[i] >= CalDCG(call.ks, call.items, score, call.num_data,
                                        call.size, 0)[i]

\* a CalMaxDCG call on items in ascending order of gain, with two increasing
\* cutoffs of which the first leaves items out
C9_Witness ==
    /\ call.op = "CalMaxDCG" /\ call.after_init /\ call.status = "ok"
    /\ Len(call.ks) = 2 /\ call.ks[1] < call.ks[2] /\ call.ks[1] < call.num_data
    /\ call.num_data >= 3
    /\ \A a \in 1..(call.num_data - 1) :
          /\ GainOf(call.items[a]) >= 0
          /\ GainOf(call.items[a]) < GainOf(call.items[a + 1])
    /\ call.out[2] > call.out[1]

\* a label is integer-valued within the tolerance: its distance to the
\* nearest integer is 0 or a tiny offset
IntegerValued(l) == l.half % 2 = 0
\* its value is below 0 / at least size
BelowZero(l) == l.half < 0 \/ (l.half = 0 /\ l.tiny < 0)
AtLeast(l, size) == l.half > 2 * size \/ (l.half = 2 * size /\ l.tiny >= 0)

\* C4: CheckLabel ends in the fatal error iff at least one label is not
\* integer-valued within the tolerance, or is negative, or is greater than or
\* equal to the size of the label-gain table; otherwise it completes.
C4_CheckLabelFatalIff ==
    call.op = "CheckLabel" =>
        /\ call.status \in {"ok", "fatal"}
        /\ (call.status = "fatal") <=>
              \E i \in 1..call.num_data :
                  \/ ~IntegerValued(call.label[i])
                  \/ BelowZero(call.label[i])
                  \/ AtLeast(call.label[i], call.size)

\* after Init, a first label CheckLabel lets pass and a second one equal to
\* the size of the table
C4_Witness ==
    /\ call.op = "CheckLabel" /\ call.after_init /\ call.size > 0
    /\ call.num_data = 2
    /\ call.label[1] = FloatLabel(0, 1)
    /\ call.label[2] = FloatLabel(2 * call.size, 0)
    /\ call.status = "fatal"

\* C5: CheckMetadata ends in the fatal error iff some query i in
\* [0, numQueries) has boundary[i+1] - boundary[i] greater than the position
\* cap (10000); otherwise it completes.
C5_CheckMetadataFatalIff ==
    call.op = "CheckMetadata" =>
        /\ call.status \in {"ok", "fatal"}
        /\ (call.status = "fatal") <=>
              /\ call.query_boundaries # NullBoundaries
              /\ \E i \in 0..(call.num_queries - 1) :
                    call.query_boundaries[i + 2] - call.query_boundaries[i + 1] > 10000

\* a first query of exactly 10000 rows and a second of 10001
C5_Witness ==
    /\ call.op = "CheckMetadata" /\ call.num_queries = 2
    /\ call.query_boundaries = <<0, 10000, 20001>>
    /\ call.status = "fatal"

\* 2^l - 1 for l in 1..31
Pow2Minus1(l) == (Pow2(l - 1) - 1) + Pow2(l - 1)

\* C6: for every integer label l >= 3 that CheckLabel accepts, CalGain
\* returns exactly 2^l - 1 whatever theta1 and theta2 are, and the int
\* expression (1 << l) - 1 does not overflow or wrap.  (An int cannot hold
\* 2^l - 1 for l > 31.)
C6_GainExact ==
    (call.op = "CalGain" /\ call.l >= 3
       /\ CheckLabel(<<FloatLabel(2 * call.l, 0)>>, 1, Len(label_gain_)) = "ok") =>
        /\ ~call.wrapped
        /\ call.unit = 1
        /\ call.l <= 31
        /\ call.val = Pow2Minus1(call.l)

\* C8: DefaultEvalAt leaves an empty sequence equal to <<1,2,3,4,5>>; on a
\* non-empty one it ends in the fatal error iff some entry is <= 0, and
\* otherwise returns with the sequence unchanged.
C8_DefaultEvalAt ==
    call.op = "DefaultEvalAt" =>
        IF call.arg = <<>>
        THEN call.status = "ok" /\ call.eval_at = <<1, 2, 3, 4, 5>>
        ELSE /\ call.status \in {"ok", "fatal"}
             /\ (call.status = "fatal") <=> (\E i \in 1..Len(call.arg) : call.arg[i] <= 0)
             /\ call.status = "ok" => call.eval_at = call.arg

\* a positive cutoff followed by the cutoff 0
C8_Witness ==
    /\ call.op = "DefaultEvalAt" /\ Len(call.arg) = 2
    /\ call.arg[1] > 0 /\ call.arg[2] = 0
    /\ call.status = "fatal"

\* C10: once Init has run and CheckMetadata has accepted the boundaries,
\* every position j at which an engine reads the discount table for one of
\* those queries, with any positive cutoffs, satisfies 0 <= j < 10000, the
\* length of the table; a call made before Init finds a table of length 0.
C10_DiscountReadsInTable ==
    call.op \in Engines =>
        /\ (call.after_init /\ call.accepted) =>
              /\ call.size = 10000
              /\ call.reads.disc.hi >= call.reads.disc.lo =>
                    (0 <= call.reads.disc.lo /\ call.reads.disc.hi < 10000)
        /\ ~call.after_init => call.size = 0

\* an engine on an accepted query of 10000 items with a cutoff beyond it:
\* the last position of the table is read
C10_Witness ==
    /\ call.op \in Engines /\ call.after_init /\ call.accepted
    /\ call.num_data = kMaxPosition
    /\ \E i \in 1..Len(call.ks) : call.ks[i] > kMaxPosition
    /\ call.reads.disc = [lo |-> 0, hi |-> kMaxPosition - 1]

====
